---- MODULE Spec2Model ----
(***************************************************************************)
(* Market-data access layer (fetch_data/fetchData.py) and the equity-curve *)
(* construction of quantstats/quant_analysis.py.                           *)
(*                                                                         *)
(* Time stamps are integers: milliseconds since midnight of day 0.  A      *)
(* calendar date is the day number, a 'YYYY-MM-DD' text is [ymd |-> day].  *)
(* Every retrieval function is one action; the store's failures are the    *)
(* action's input f, one flag per store operation the function can reach.  *)
(***************************************************************************)
EXTENDS Integers, Sequences, FiniteSets, TLC

VARIABLES store, conn, cursor, last, report

vars == <<store, conn, cursor, last, report>>

(* ------------------------------ bounds -------------------------------- *)
MaxDay == 2
MaxRows == 2
MaxTrades == 2

(* ------------------------------ time ---------------------------------- *)
SECOND == 1000
MINUTE == 60000
HOUR == 3600000
DAY == 86400000

Days == 1..MaxDay

\* datetime.date.strftime('%Y-%m-%d')
DateStrftime(d) == [ymd |-> d]

\* datetime.datetime.strptime(text, '%Y-%m-%d'): midnight of that day
Strptime(text) == text.ymd * DAY

\* datetime.datetime.strftime('%Y-%m-%d'): the time of day is dropped
Strftime(ts) == [ymd |-> ts \div DAY]

\* the store's cast of a 'YYYY-MM-DD' literal to a timestamp
CastTimestamp(text) == text.ymd * DAY

\* pandas Timestamp.date() / Series.dt.date
DateOf(ts) == ts \div DAY

TimeOfDay(ts) == ts % DAY

\* DatetimeIndex.round('s'): nearest second, ties to the even second
RoundS(ts) ==
    LET lo == (ts \div SECOND) * SECOND
        r  == ts - lo
    IN  IF r * 2 < SECOND THEN lo
        ELSE IF r * 2 > SECOND THEN lo + SECOND
        ELSE IF (lo \div SECOND) % 2 = 0 THEN lo ELSE lo + SECOND

(* --------------------------- sequences -------------------------------- *)
\* the orders in which the elements of S can be listed
Perms(S) ==
    {s \in [1..Cardinality(S) -> S] :
        \A i, j \in 1..Cardinality(S) : i # j => s[i] # s[j]}

RECURSIVE Restrict(_, _)
\* the elements of the sequence s that are in S, in the order of s
Restrict(s, S) ==
    IF s = <<>> THEN <<>>
    ELSE IF Head(s) \in S THEN <<Head(s)>> \o Restrict(Tail(s), S)
    ELSE Restrict(Tail(s), S)

RECURSIVE SortInts(_)
\* a set of integers as an ascending sequence
SortInts(S) ==
    IF S = {} THEN <<>>
    ELSE LET m == CHOOSE x \in S : \A y \in S : x <= y
         IN  <<m>> \o SortInts(S \ {m})

StrictlyAscending(s) == \A i \in 1..(Len(s) - 1) : s[i] < s[i + 1]

(* ------------------------------ store --------------------------------- *)
\* times of day of the index and futures bars the store may hold
BarTimes == {0, 9 * HOUR + 30 * MINUTE}

BarDatetimes == {d * DAY + t : d \in Days, t \in BarTimes}

Prices == {4235}

\* spx_index rows (Datetime is the key of a bar)
IndexRows == [Datetime : BarDatetimes, Close : Prices]

\* nq_futures rows
FuturesRows ==
    [Datetime : BarDatetimes, Close : Prices, Contract_month : {202403}]
        \cup [Datetime : {DAY + 9 * HOUR + 30 * MINUTE}, Close : Prices,
              Contract_month : {202406}]

\* times of day of the raw option prints: 09:15:30.000, 09:30:59.700,
\* 09:31:00.200, 09:31:30.000, 10:00:00.000
TickTimes == {33330000, 34259700, 34260200, 34290000, 36000000}

\* stored Expiry values: day 2 at 00:00, day 2 at 16:00, day 3 at 00:00
ExpiryValues == {2 * DAY, 2 * DAY + 16 * HOUR, 3 * DAY}

OptionTypes == {"CE", "PE"}

\* spxw_options_ohlcv rows
OptionRows ==
    [Datetime : {DAY + t : t \in TickTimes}, OptionType : {"CE"},
     Strike : Prices, Expiry : {2 * DAY}, Volume : {1}]
        \cup [Datetime : {DAY + 36000000}, OptionType : {"CE"},
              Strike : Prices, Expiry : ExpiryValues, Volume : {1}]

EmptyStore == [spx_index |-> {}, nq_futures |-> {}, spxw_options_ohlcv |-> {}]

Tables(rows) == {t \in SUBSET rows : Cardinality(t) <= MaxRows}

\* one table filled with at most MaxRows rows, the other tables empty
IndexStores == {[EmptyStore EXCEPT !.spx_index = t] : t \in Tables(IndexRows)}

FuturesStores == {[EmptyStore EXCEPT !.nq_futures = t] : t \in Tables(FuturesRows)}

OptionStores ==
    {[EmptyStore EXCEPT !.spxw_options_ohlcv = t] : t \in Tables(OptionRows)}

\* the store with every table filled with all its rows, and the empty one
FullStore ==
    [spx_index |-> IndexRows, nq_futures |-> FuturesRows,
     spxw_options_ohlcv |-> OptionRows]

SampleStores == {EmptyStore, FullStore}

(* ----------------------------- queries -------------------------------- *)
NoText == [ymd |-> 0]

NoArgs ==
    [symbol |-> "", startDate |-> 0, endDate |-> 0, strike |-> 0,
     expiryDate |-> 0, callPut |-> "", contractMonth |-> 0, order |-> <<>>]

\* a rendered query: its template and the values substituted into it
NoQuery ==
    [template |-> "", symbol |-> "", startDate |-> NoText, endDate |-> NoText,
     strike |-> 0, expiryDate |-> NoText, callPut |-> "", contractMonth |-> 0,
     order |-> <<>>]

\* SELECT DISTINCT DATE_TRUNC('day', Datetime) AS dates FROM spx_index
\* (no ORDER BY: the distinct days come in the order q.order, which the
\* store is free to choose)
SelectTradingDays(st, q) ==
    LET days == {(r.Datetime \div DAY) * DAY : r \in st.spx_index}
        dist == Restrict(q.order, days)
    IN  [i \in 1..Len(dist) |-> [dates |-> dist[i]]]

\* SELECT DISTINCT Expiry FROM spxw_options_ohlcv ORDER BY Expiry ASC
SelectExpiry(st) ==
    LET vals == SortInts({r.Expiry : r \in st.spxw_options_ohlcv})
    IN  [i \in 1..Len(vals) |-> [Expiry |-> vals[i]]]

\* SELECT Datetime as timestamp, ... from SPX_index WHERE Datetime >= start
\* AND Datetime <= end ORDER BY Datetime
SelectIndexBars(st, q) ==
    LET sel == {r \in st.spx_index :
                    /\ r.Datetime >= CastTimestamp(q.startDate)
                    /\ r.Datetime <= CastTimestamp(q.endDate)}
        ts  == SortInts({r.Datetime : r \in sel})
    IN  [i \in 1..Len(ts) |->
            LET r == CHOOSE x \in sel : x.Datetime = ts[i]
            IN  [timestamp |-> r.Datetime, Close |-> r.Close]]

\* the interval '2000-01-01T09:15;404m;1d;10000': every day from 09:15:00
\* to the end of minute 09:15 + 404 min = 15:59
InSampleInterval(ts) ==
    /\ TimeOfDay(ts) >= 9 * HOUR + 15 * MINUTE
    /\ TimeOfDay(ts) < 9 * HOUR + 15 * MINUTE + MINUTE + 404 * MINUTE

RECURSIVE SumVolume(_)
SumVolume(S) ==
    IF S = {} THEN 0
    ELSE LET r == CHOOSE x \in S : TRUE IN r.Volume + SumVolume(S \ {r})

\* the option query: prints with start < Datetime < end inside the sample
\* interval, of one strike, expiry and type, SAMPLE BY 1m with
\* min(timestamp) and sum(Volume) per minute
SelectOptionBars(st, q) ==
    LET sel == {r \in st.spxw_options_ohlcv :
                    /\ r.Datetime > CastTimestamp(q.startDate)
                    /\ r.Datetime < CastTimestamp(q.endDate)
                    /\ InSampleInterval(r.Datetime)
                    /\ r.Strike = q.strike
                    /\ r.Expiry = CastTimestamp(q.expiryDate)
                    /\ r.OptionType = q.callPut}
        mins == SortInts({r.Datetime \div MINUTE : r \in sel})
    IN  [i \in 1..Len(mins) |->
            LET bucket == {r \in sel : r.Datetime \div MINUTE = mins[i]}
                first  == CHOOSE x \in bucket :
                              \A y \in bucket : x.Datetime <= y.Datetime
            IN  [timestamp |-> first.Datetime, OptionType |-> q.callPut,
                 Strike |-> q.strike, Expiry |-> first.Expiry,
                 Volume |-> SumVolume(bucket)]]

\* SELECT DISTINCT Contract_month FROM NQ_futures ORDER BY Contract_month
SelectContractMonths(st) ==
    LET ms == SortInts({r.Contract_month : r \in st.nq_futures})
    IN  [i \in 1..Len(ms) |-> [Contract_month |-> ms[i]]]

\* SELECT Datetime as timestamp, ... from NQ_futures WHERE Datetime >= start
\* AND Datetime <= end AND Contract_month = m ORDER BY Datetime
SelectFuturesBars(st, q) ==
    LET sel == {r \in st.nq_futures :
                    /\ r.Datetime >= CastTimestamp(q.startDate)
                    /\ r.Datetime <= CastTimestamp(q.endDate)
                    /\ r.Contract_month = q.contractMonth}
        ts  == SortInts({r.Datetime : r \in sel})
    IN  [i \in 1..Len(ts) |->
            LET r == CHOOSE x \in sel : x.Datetime = ts[i]
            IN  [timestamp |-> r.Datetime, Close |-> r.Close]]

\* the futures symbols whose table {symbol}_futures exists in the store
FuturesTables == {"NQ"}

\* what the store answers to a query it accepts: ok is FALSE when the
\* query names a table the store does not have
RunQuery(st, q) ==
    IF q.template = "trading_days" THEN [ok |-> TRUE, rows |-> SelectTradingDays(st, q)]
    ELSE IF q.template = "expiry_days" THEN [ok |-> TRUE, rows |-> SelectExpiry(st)]
    ELSE IF q.template = "index_bars" THEN [ok |-> TRUE, rows |-> SelectIndexBars(st, q)]
    ELSE IF q.template = "option_bars" THEN [ok |-> TRUE, rows |-> SelectOptionBars(st, q)]
    ELSE IF q.symbol \notin FuturesTables THEN [ok |-> FALSE, rows |-> <<>>]
    ELSE IF q.template = "contract_months"
         THEN [ok |-> TRUE, rows |-> SelectContractMonths(st)]
    ELSE [ok |-> TRUE, rows |-> SelectFuturesBars(st, q)]

(* ----------------------------- session -------------------------------- *)
\* the store operations a retrieval function can reach; f[s] says that the
\* operation fails when the function reaches it
Steps == {"execute1", "cursorClose", "connClose", "connect", "cursorOpen", "execute2"}

\* one failure vector per path through the try/except block: the flag of a
\* step that the path does not reach is FALSE
FailureScenarios ==
    {f \in [Steps -> BOOLEAN] :
        /\ ~f["execute1"] => \A s \in Steps : ~f[s]
        /\ ~f["cursorClose"] => ~f["connClose"] /\ ~f["connect"]
        /\ f["connClose"] => ~f["connect"] /\ ~f["cursorOpen"] /\ ~f["execute2"]
        /\ f["connect"] => ~f["cursorOpen"] /\ ~f["execute2"]
        /\ f["cursorOpen"] => ~f["execute2"]}

Event(call, ok) == [call |-> call, query |-> NoQuery, ok |-> ok]

Submission(q, ok) == [call |-> "execute", query |-> q, ok |-> ok]

\* a cursor executes only if it is open and its connection is the open one
Usable(cn, cu) == ~cu.closed /\ cu.connection = "conn" /\ ~cn.closed

\* a resubmission that is submitted once more when it fails
ResubmitAgain(q, res, f) ==
    IF ~f["execute2"] /\ res.ok
    THEN [log |-> <<Submission(q, TRUE)>>, raised |-> FALSE, rows |-> res.rows]
    ELSE [log |-> <<Submission(q, FALSE), Submission(q, res.ok)>>,
          raised |-> ~res.ok, rows |-> res.rows]

\* a resubmission whose failure is swallowed: the fresh cursor yields no rows
ResubmitSwallow(q, res, f) ==
    LET ok2 == ~f["execute2"] /\ res.ok
    IN  [log |-> <<Submission(q, ok2)>>, raised |-> FALSE,
         rows |-> IF ok2 THEN res.rows ELSE <<>>]

\* a resubmission that loses the first row of its result
ResubmitPartial(q, res, f) ==
    LET ok2 == ~f["execute2"] /\ res.ok
    IN  [log |-> <<Submission(q, ok2)>>, raised |-> ~ok2,
         rows |-> IF ok2 /\ res.rows # <<>> THEN Tail(res.rows) ELSE <<>>]

\* the second cursor.execute(q), on the fresh cursor: res is the store's
\* answer to q
Resubmit(q, res, f) ==
    LET ok2 == ~f["execute2"] /\ res.ok
    IN  [log |-> <<Submission(q, ok2)>>, raised |-> ~ok2,
         rows |-> IF ok2 THEN res.rows ELSE <<>>]

\* try: cursor.execute(q)
\* except: try: cursor.close()
\*         except: conn.close(); conn = psycopg2.connect(...)
\*         cursor = conn.cursor(...); cursor.execute(q)
\* rows is what cursor.fetchall() then yields; res is the store's answer
\* to q, RunQuery(store, q), bound once by the caller
ExecuteWithRepair(cn, cu, q, f, res) ==
    LET ok1 == ~f["execute1"] /\ Usable(cn, cu) /\ res.ok
        e1 == Submission(q, ok1)
    IN  IF ok1
        THEN [conn |-> cn, cursor |-> cu, log |-> <<e1>>, raised |-> FALSE,
              rows |-> res.rows]
        ELSE
        LET closed ==
                IF ~f["cursorClose"]
                THEN [conn |-> cn, cursor |-> [cu EXCEPT !.closed = TRUE],
                      log |-> <<e1, Event("cursor.close", TRUE)>>, raised |-> FALSE]
                ELSE IF f["connClose"]
                THEN [conn |-> cn, cursor |-> cu,
                      log |-> <<e1, Event("cursor.close", FALSE),
                                Event("conn.close", FALSE)>>, raised |-> TRUE]
                ELSE IF f["connect"]
                THEN [conn |-> [closed |-> TRUE], cursor |-> cu,
                      log |-> <<e1, Event("cursor.close", FALSE),
                                Event("conn.close", TRUE),
                                Event("connect", FALSE)>>, raised |-> TRUE]
                ELSE [conn |-> [closed |-> FALSE],
                      cursor |-> [cu EXCEPT !.connection = "stale"],
                      log |-> <<e1, Event("cursor.close", FALSE),
                                Event("conn.close", TRUE),
                                Event("connect", TRUE)>>, raised |-> FALSE]
            opened == ~f["cursorOpen"] /\ ~closed.conn.closed
            fresh  == [closed |-> FALSE, connection |-> "conn"]
            again  == Resubmit(q, res, f)
        IN  IF closed.raised
            THEN [conn |-> closed.conn, cursor |-> closed.cursor, log |-> closed.log,
                  raised |-> TRUE, rows |-> <<>>]
            ELSE IF ~opened
            THEN [conn |-> closed.conn, cursor |-> closed.cursor,
                  log |-> Append(closed.log, Event("conn.cursor", FALSE)),
                  raised |-> TRUE, rows |-> <<>>]
            ELSE [conn |-> closed.conn, cursor |-> fresh,
                  log |-> closed.log \o <<Event("conn.cursor", TRUE)>> \o again.log,
                  raised |-> again.raised, rows |-> again.rows]

(* ------------------------- result shaping ----------------------------- *)
\* pd.to_datetime of the datetime objects the cursor yields: the same instant
ToDatetime(ts) == ts

Raise(error) == [raised |-> TRUE, error |-> error, df |-> <<>>]

Return(df) == [raised |-> FALSE, error |-> "", df |-> df]

\* df['dates'] = pd.to_datetime(df['dates']).dt.date; an empty frame has no
\* column 'dates'
ShapeTradingDays(rows) ==
    IF rows = <<>> THEN Raise("KeyError")
    ELSE Return([i \in 1..Len(rows) |-> [dates |-> DateOf(ToDatetime(rows[i].dates))]])

\* df['dates'] = pd.to_datetime(df['Expiry']).dt.date; sort_values(by='dates');
\* df[['dates']]; reset_index(drop=True)
ShapeExpiryDays(rows) ==
    IF rows = <<>> THEN Raise("KeyError")
    ELSE LET dates  == [i \in 1..Len(rows) |-> DateOf(ToDatetime(rows[i].Expiry))]
             sorted == SortSeq(dates, LAMBDA a, b : a < b)
         IN  Return([i \in 1..Len(sorted) |-> [dates |-> sorted[i]]])

\* the shaping without its test for an empty frame
ShapeBarsUnchecked(rows, error) ==
    Return([i \in 1..Len(rows) |->
               [rows[i] EXCEPT !.timestamp = ToDatetime(rows[i].timestamp)]])

\* if df.empty: raise; df.set_index("timestamp"); pd.to_datetime(df.index)
ShapeBars(rows, error) ==
    IF rows = <<>> \/ Len(rows) = 0 THEN Raise(error)
    ELSE Return([i \in 1..Len(rows) |->
                    [rows[i] EXCEPT !.timestamp = ToDatetime(rows[i].timestamp)]])

\* the times of day DataFrame.between_time('09:30', '15:59') keeps: both
\* ends included
InSessionWindow(ts) ==
    /\ TimeOfDay(ts) >= 9 * HOUR + 30 * MINUTE
    /\ TimeOfDay(ts) <= 15 * HOUR + 59 * MINUTE

RECURSIVE BetweenTime(_)
\* df.between_time('09:30', '15:59'): the rows kept, in the frame's order
BetweenTime(rows) ==
    IF rows = <<>> THEN <<>>
    ELSE LET rest == BetweenTime(Tail(rows))
         IN  IF InSessionWindow(ToDatetime(Head(rows).timestamp))
             THEN <<Head(rows)>> \o rest ELSE rest

\* if df.empty: raise; else: to_datetime, set_index, between_time, round('s')
ShapeOptionBars(rows) ==
    IF rows = <<>> \/ Len(rows) = 0 THEN Raise("Options data Not found")
    ELSE LET kept == BetweenTime(rows)
         IN  Return([i \in 1..Len(kept) |->
                        [kept[i] EXCEPT !.timestamp = RoundS(ToDatetime(kept[i].timestamp))]])

(* ---------------------------- operations ------------------------------ *)
NoCall ==
    [op |-> "", args |-> NoArgs, log |-> <<>>, outcome |-> "none", error |-> "",
     raw |-> <<>>, df |-> <<>>]

\* the effect of a call that reached the store: x is what ExecuteWithRepair
\* did (bound once by the caller), shaped what the function made of the
\* fetched rows
Finish(op, args, x, shaped) ==
    /\ conn' = x.conn
    /\ cursor' = x.cursor
    /\ last' = [op |-> op, args |-> args, log |-> x.log,
                outcome |-> IF x.raised \/ shaped.raised THEN "raised" ELSE "returned",
                error |-> IF x.raised THEN "store error" ELSE shaped.error,
                raw |-> x.rows,
                df |-> IF x.raised THEN <<>> ELSE shaped.df]
    /\ UNCHANGED <<store, report>>

\* raise Exception('Invalid symbol')
Reject(op, args) ==
    /\ last' = [NoCall EXCEPT !.op = op, !.args = args, !.outcome = "raised",
                              !.error = "Invalid symbol"]
    /\ UNCHANGED <<store, conn, cursor, report>>

\* endDate = strptime(endDate) + timedelta(days=1), as text again
NextDayText(text) == Strftime(Strptime(text) + DAY)

\* order is not an argument of the function: it is the order in which the
\* store yields the rows of this call's query
fetchTradingDays(order, f) ==
    LET args == [NoArgs EXCEPT !.order = order]
        q    == [NoQuery EXCEPT !.template = "trading_days", !.order = order]
    IN  \E x \in {ExecuteWithRepair(conn, cursor, q, f, RunQuery(store, q))} :
            Finish("fetchTradingDays", args, x, ShapeTradingDays(x.rows))

ExpirySymbols == {"SPXW"}

fetchExpiryDays(symbol, f) ==
    LET args == [NoArgs EXCEPT !.symbol = symbol]
        q    == [NoQuery EXCEPT !.template = "expiry_days"]
    IN  IF symbol \notin ExpirySymbols THEN Reject("fetchExpiryDays", args)
        ELSE \E x \in {ExecuteWithRepair(conn, cursor, q, f, RunQuery(store, q))} :
                Finish("fetchExpiryDays", args, x, ShapeExpiryDays(x.rows))

IndexSymbols == {"SPX"}

fetchDataIndex(symbol, startDate, endDate, f) ==
    LET args == [NoArgs EXCEPT !.symbol = symbol, !.startDate = startDate,
                               !.endDate = endDate]
        q    == [NoQuery EXCEPT !.template = "index_bars", !.symbol = symbol,
                                !.startDate = DateStrftime(startDate),
                                !.endDate = NextDayText(DateStrftime(endDate))]
    IN  IF symbol \notin IndexSymbols THEN Reject("fetchDataIndex", args)
        ELSE \E x \in {ExecuteWithRepair(conn, cursor, q, f, RunQuery(store, q))} :
                Finish("fetchDataIndex", args, x, ShapeBars(x.rows,
                       "Index data not found"))

OptionSymbols == {"SPXW"}

\* fetchDataOptions with the symbol checked after the query is submitted
fetchDataOptionsLateCheck(symbol, startDate, endDate, strike, expiryDate, callPut, f) ==
    LET args == [NoArgs EXCEPT !.symbol = symbol, !.startDate = startDate,
                               !.endDate = endDate, !.strike = strike,
                               !.expiryDate = expiryDate, !.callPut = callPut]
        q    == [NoQuery EXCEPT !.template = "option_bars", !.symbol = symbol,
                                !.startDate = DateStrftime(startDate),
                                !.endDate = NextDayText(DateStrftime(endDate)),
                                !.strike = strike,
                                !.expiryDate = DateStrftime(expiryDate),
                                !.callPut = callPut]
    IN  \E x \in {ExecuteWithRepair(conn, cursor, q, f, RunQuery(store, q))} :
            Finish("fetchDataOptions", args, x,
                   IF symbol \notin OptionSymbols THEN Raise("Invalid symbol")
                   ELSE ShapeOptionBars(x.rows))

fetchDataOptions(symbol, startDate, endDate, strike, expiryDate, callPut, f) ==
    LET args == [NoArgs EXCEPT !.symbol = symbol, !.startDate = startDate,
                               !.endDate = endDate, !.strike = strike,
                               !.expiryDate = expiryDate, !.callPut = callPut]
        q    == [NoQuery EXCEPT !.template = "option_bars", !.symbol = symbol,
                                !.startDate = DateStrftime(startDate),
                                !.endDate = NextDayText(DateStrftime(endDate)),
                                !.strike = strike,
                                !.expiryDate = DateStrftime(expiryDate),
                                !.callPut = callPut]
    IN  IF symbol \notin OptionSymbols THEN Reject("fetchDataOptions", args)
        ELSE \E x \in {ExecuteWithRepair(conn, cursor, q, f, RunQuery(store, q))} :
                Finish("fetchDataOptions", args, x, ShapeOptionBars(x.rows))

fetchContractMonthFutures(symbol, f) ==
    LET args == [NoArgs EXCEPT !.symbol = symbol]
        q    == [NoQuery EXCEPT !.template = "contract_months", !.symbol = symbol]
    IN  \E x \in {ExecuteWithRepair(conn, cursor, q, f, RunQuery(store, q))} :
            Finish("fetchContractMonthFutures", args, x, Return(x.rows))

fetchDataFutures(symbol, startDate, endDate, contractMonth, f) ==
    LET args == [NoArgs EXCEPT !.symbol = symbol, !.startDate = startDate,
                               !.endDate = endDate, !.contractMonth = contractMonth]
        q    == [NoQuery EXCEPT !.template = "futures_bars", !.symbol = symbol,
                                !.startDate = DateStrftime(startDate),
                                !.endDate = NextDayText(DateStrftime(endDate)),
                                !.contractMonth = contractMonth]
    IN  \E x \in {ExecuteWithRepair(conn, cursor, q, f, RunQuery(store, q))} :
            Finish("fetchDataFutures", args, x, ShapeBars(x.rows,
                       "Futures data not found"))

(* -------------------------- specification ----------------------------- *)
NoReport ==
    [outcome |-> "none", csv |-> <<>>, initial_capital |-> 0, point_value |-> 0,
     trades_df |-> <<>>, start |-> 0, equity |-> <<>>, dates |-> <<>>, rets |-> <<>>]

\* conn = psycopg2.connect(...); cursor = conn.cursor(...)
InitSession ==
    /\ conn = [closed |-> FALSE]
    /\ cursor = [closed |-> FALSE, connection |-> "conn"]
    /\ last = NoCall
    /\ report = NoReport

\* the inputs of the calls
Symbols == {"SPX", "SPXW"}

FuturesSymbols == {"NQ", "ES"}

ExpiryDates == {2}

\* the contract month asked for; the table also holds bars of another one
RequestedMonths == {202403}

NoFailure == [s \in Steps |-> FALSE]

\* a call with a rejected symbol reads none of its other inputs: one
\* representative of them is enough
Representative(symbol, valid, startDate, endDate, f) ==
    /\ startDate <= endDate
    /\ symbol \notin valid => startDate = 1 /\ endDate = 1 /\ f = NoFailure

CallTradingDays ==
    \E order \in Perms({d * DAY : d \in Days}), f \in FailureScenarios :
        fetchTradingDays(order, f)

CallExpiryDays ==
    \E symbol \in Symbols, f \in FailureScenarios :
        /\ Representative(symbol, ExpirySymbols, 1, 1, f)
        /\ fetchExpiryDays(symbol, f)

CallDataIndex ==
    \E symbol \in Symbols, startDate \in Days, endDate \in Days,
       f \in FailureScenarios :
        /\ Representative(symbol, IndexSymbols, startDate, endDate, f)
        /\ fetchDataIndex(symbol, startDate, endDate, f)

CallDataOptions ==
    \E symbol \in Symbols, startDate \in Days, endDate \in Days,
       strike \in Prices, expiryDate \in ExpiryDates, callPut \in OptionTypes,
       f \in FailureScenarios :
        /\ Representative(symbol, OptionSymbols, startDate, endDate, f)
        /\ fetchDataOptions(symbol, startDate, endDate, strike, expiryDate, callPut, f)

CallContractMonthFutures ==
    \E symbol \in FuturesSymbols, f \in FailureScenarios :
        fetchContractMonthFutures(symbol, f)

\* a symbol without a table fails whatever the dates: one pair is enough
CallDataFutures ==
    \E symbol \in FuturesSymbols, startDate \in Days, endDate \in Days,
       contractMonth \in RequestedMonths, f \in FailureScenarios :
        /\ startDate <= endDate
        /\ symbol \notin FuturesTables => startDate = 1 /\ endDate = 1
        /\ fetchDataFutures(symbol, startDate, endDate, contractMonth, f)

\* every retrieval function, on the sample stores
Init == store \in SampleStores /\ InitSession

Next ==
    \/ CallTradingDays
    \/ CallExpiryDays
    \/ CallDataIndex
    \/ CallDataOptions
    \/ CallContractMonthFutures
    \/ CallDataFutures

Spec == Init /\ [][Next]_vars

(* --------------------------- equity curve ----------------------------- *)
\* the trade logs: entry_time, exit_time and pnl of every trade, in the
\* order of the CSV file
ExitTimes == {d * DAY + t : d \in Days, t \in {10 * HOUR, 15 * HOUR}}

Pnls == {-5, 10}

Trades ==
    {tr \in [entry_time : {x - e : x \in ExitTimes, e \in {HOUR, DAY}},
             exit_time : ExitTimes, pnl : Pnls] :
        tr.exit_time - tr.entry_time \in {HOUR, DAY}}

TradeLogs == UNION {[1..n -> Trades] : n \in 0..MaxTrades}

InitialCapitals == {100000, 100}

PointValues == {20}

\* trades_df.sort_values('exit_time'): order is a listing of the row numbers
\* that is ascending in exit_time; the order of equal exit times is not
\* determined by the sort
SortOrders(df) ==
    {order \in Perms(1..Len(df)) :
        \A i \in 1..(Len(df) - 1) :
            df[order[i]].exit_time <= df[order[i + 1]].exit_time}

RECURSIVE EquityLoopPoints(_, _, _)
\* the loop with the pnl added in points, not in dollars
EquityLoopPoints(trades, point_value, equity) ==
    IF trades = <<>> THEN equity
    ELSE EquityLoopPoints(Tail(trades), point_value,
                          Append(equity, equity[Len(equity)] + Head(trades).pnl))

RECURSIVE EquityLoop(_, _, _)
\* for _, trade in trades_df.iterrows():
\*     equity.append(equity[-1] + trade['pnl'] * point_value)
EquityLoop(trades, point_value, equity) ==
    IF trades = <<>> THEN equity
    ELSE EquityLoop(Tail(trades), point_value,
                    Append(equity, equity[Len(equity)] + Head(trades).pnl * point_value))

\* a return is kept as the fraction num / den
Fraction(num, den) == [num |-> num, den |-> den]

\* equity_series.pct_change().dropna(): the first entry and every 0/0 are
\* dropped
PctChange(series, k) == Fraction(series[k] - series[k - 1], series[k - 1])

RECURSIVE PctChanges(_, _)
PctChanges(series, k) ==
    IF k > Len(series) THEN <<>>
    ELSE LET r == PctChange(series, k)
         IN  IF r.num = 0 /\ r.den = 0 THEN PctChanges(series, k + 1)
             ELSE <<r>> \o PctChanges(series, k + 1)

MinEntry(df) ==
    CHOOSE m \in {df[i].entry_time : i \in 1..Len(df)} :
        \A i \in 1..Len(df) : m <= df[i].entry_time

\* the equity and return series of generate_quantstats_report, up to the
\* call of reports.html; an empty log fails at equity_series.iloc[0]
generate_quantstats_report(order) ==
    /\ report.outcome = "none"
    /\ order \in SortOrders(report.csv)
    /\ LET trades_df == [i \in 1..Len(report.csv) |-> report.csv[order[i]]]
           equity    == EquityLoop(trades_df, report.point_value,
                                   <<report.initial_capital>>)
           series    == Tail(equity)
           first_day == Fraction(series[1] - report.initial_capital,
                                 report.initial_capital)
       IN  report' =
              IF report.csv = <<>> THEN [report EXCEPT !.outcome = "raised"]
              ELSE [report EXCEPT
                       !.outcome = "done",
                       !.trades_df = trades_df,
                       !.start = DateOf(MinEntry(report.csv)) - 1,
                       !.equity = series,
                       !.dates = [i \in 1..Len(trades_df) |->
                                     DateOf(trades_df[i].exit_time)],
                       !.rets = <<first_day>> \o PctChanges(series, 2)]
    /\ UNCHANGED <<store, conn, cursor, last>>

\* the trade log, the capital and the point value are the inputs
InitEquity ==
    /\ store = EmptyStore
    /\ conn = [closed |-> FALSE]
    /\ cursor = [closed |-> FALSE, connection |-> "conn"]
    /\ last = NoCall
    /\ report \in {[NoReport EXCEPT !.csv = log, !.initial_capital = c,
                                     !.point_value = pv] :
                      log \in TradeLogs, c \in InitialCapitals, pv \in PointValues}

NextEquity == \E order \in Perms(1..Len(report.csv)) : generate_quantstats_report(order)

SpecEquity == InitEquity /\ [][NextEquity]_vars

\* the two functions with the inclusive date range, on every index table
\* and every futures table within the bounds
InitBars == store \in IndexStores \cup FuturesStores /\ InitSession

NextBars == CallDataIndex \/ CallDataFutures

SpecBars == InitBars /\ [][NextBars]_vars

\* the two functions that read spxw_options_ohlcv, on every table of
\* option prints within the bounds
InitOptions == store \in OptionStores /\ InitSession

NextOptions == CallExpiryDays \/ CallDataOptions

SpecOptions == InitOptions /\ [][NextOptions]_vars

(* ---------------------------- properties ------------------------------ *)
\* the positions of the events of one kind in a call's log
Calls(log, call) == {i \in 1..Len(log) : log[i].call = call}

FirstFailed(log) == log # <<>> /\ ~log[1].ok

\* the repair got as far as a fresh cursor
Repaired(log) == \E i \in Calls(log, "conn.cursor") : log[i].ok

RepairFailed(log) ==
    \E i \in 1..Len(log) :
        log[i].call \in {"conn.close", "connect", "conn.cursor"} /\ ~log[i].ok

ResubmissionFailed(log) == \E i \in Calls(log, "execute") : i > 1 /\ ~log[i].ok

RetrievalOps ==
    {"fetchTradingDays", "fetchExpiryDays", "fetchDataIndex", "fetchDataOptions",
     "fetchContractMonthFutures", "fetchDataFutures"}

\* C1: a retrieval call submits its query at most twice; a second
\* submission is the last thing the call does to the store, resubmits the
\* identical query and comes only after the first one failed; a failed
\* first submission is followed by exactly one repair (one cursor.close,
\* at most one conn.close, connect and conn.cursor), and by exactly one
\* resubmission when the repair got a fresh cursor; a successful first
\* submission is followed by no store operation at all.
C1_SingleRepairSingleResubmission ==
    LET log == last.log
        ex  == Calls(log, "execute")
    IN  last.op \in RetrievalOps /\ log # <<>> =>
            /\ log[1].call = "execute"
            /\ Cardinality(ex) <= 2
            /\ log[1].ok => Len(log) = 1
            /\ Cardinality(ex) = 2 =>
                    /\ ~log[1].ok
                    /\ ex = {1, Len(log)}
                    /\ log[Len(log)].query = log[1].query
            /\ FirstFailed(log) =>
                    /\ Calls(log, "cursor.close") = {2}
                    /\ \A c \in {"conn.close", "connect", "conn.cursor"} :
                           Cardinality(Calls(log, c)) <= 1
                    /\ Repaired(log) <=> Cardinality(ex) = 2

\* a call whose first submission failed, repaired by a reconnect, and whose
\* resubmission succeeded
C1_Witness ==
    /\ last.op = "fetchTradingDays"
    /\ last.outcome = "returned"
    /\ Cardinality(Calls(last.log, "execute")) = 2
    /\ Calls(last.log, "connect") # {}
    /\ ~last.log[1].ok

\* C2: when the first submission fails and the repair or the resubmission
\* fails too, the call raises the store's error, returns no table and has
\* submitted its query at most twice.
C2_SecondFailurePropagates ==
    last.op \in RetrievalOps /\ FirstFailed(last.log)
            /\ (RepairFailed(last.log) \/ ResubmissionFailed(last.log)) =>
        /\ last.outcome = "raised"
        /\ last.error = "store error"
        /\ last.df = <<>>
        /\ Cardinality(Calls(last.log, "execute")) <= 2

\* a call on an existing table whose two submissions both failed
C2_Witness ==
    /\ last.op = "fetchContractMonthFutures"
    /\ last.args.symbol = "NQ"
    /\ ResubmissionFailed(last.log)
    /\ last.outcome = "raised"

InvalidSymbol(c) ==
    \/ c.op \in {"fetchExpiryDays", "fetchDataOptions"} /\ c.args.symbol # "SPXW"
    \/ c.op = "fetchDataIndex" /\ c.args.symbol # "SPX"

\* C3: a call of fetchExpiryDays or fetchDataOptions with a symbol other
\* than 'SPXW', or of fetchDataIndex with a symbol other than 'SPX', raises
\* 'Invalid symbol' without any store operation (no submission, no close,
\* no reconnect) and leaves conn and cursor as they were.
C3_InvalidSymbolBeforeStore ==
    [][InvalidSymbol(last') =>
            /\ last'.outcome = "raised"
            /\ last'.error = "Invalid symbol"
            /\ last'.log = <<>>
            /\ conn' = conn
            /\ cursor' = cursor]_vars

\* fetchDataOptions rejected 'SPX' while the session's cursor was closed
C3_Witness ==
    /\ last.op = "fetchDataOptions"
    /\ last.args.symbol = "SPX"
    /\ last.error = "Invalid symbol"
    /\ cursor.closed

\* the store answered one of the call's submissions
StoreCallSucceeded(log) == \E i \in Calls(log, "execute") : log[i].ok

\* C4: fetchDataIndex and fetchDataFutures never return an empty table: a
\* call whose submission or resubmission succeeded and yielded zero rows
\* raises the not-found error, and a returned table has at least one row.
C4_BarsNeverEmpty ==
    last.op \in {"fetchDataIndex", "fetchDataFutures"} =>
        /\ last.outcome = "returned" => Len(last.df) >= 1
        /\ StoreCallSucceeded(last.log) /\ last.raw = <<>> =>
                /\ last.outcome = "raised"
                /\ last.error \in {"Index data not found", "Futures data not found"}

\* fetchDataFutures found no bar of the contract month in a table that has
\* bars, on the resubmission after a repair
C4_Witness ==
    /\ last.op = "fetchDataFutures"
    /\ store.nq_futures # {}
    /\ Repaired(last.log)
    /\ StoreCallSucceeded(last.log)
    /\ last.error = "Futures data not found"

\* C5: fetchDataOptions never returns a table with zero rows, whatever rows
\* the store yields (also rows that all lie outside 09:30-15:59): it raises
\* or returns at least one bar.
C5_OptionsNeverEmpty ==
    last.op = "fetchDataOptions" /\ last.outcome = "returned" => Len(last.df) >= 1

Timestamps(df) == {df[i].timestamp : i \in 1..Len(df)}

\* two successive calls of the same bar function, on the date ranges
\* [d1, d2] and [d2 + 1, d3] of the same series, that both returned
Adjacent(c1, c2) ==
    /\ c1.op \in {"fetchDataIndex", "fetchDataFutures"}
    /\ c2.op = c1.op
    /\ c1.outcome = "returned" /\ c2.outcome = "returned"
    /\ c2.args.symbol = c1.args.symbol
    /\ c2.args.contractMonth = c1.args.contractMonth
    /\ c1.args.startDate <= c1.args.endDate
    /\ c2.args.startDate = c1.args.endDate + 1
    /\ c2.args.startDate <= c2.args.endDate

\* C6: two calls of fetchDataIndex, or of fetchDataFutures, on the adjacent
\* date ranges [d1, d2] and [d2 + 1, d3] return no common timestamp,
\* whatever bars are stored (also a bar at 00:00:00 of day d2 + 1).
C6_AdjacentRangesDisjoint ==
    [][Adjacent(last, last') =>
            Timestamps(last.df) \cap Timestamps(last'.df) = {}]_vars

\* C7: the timestamp index of the table returned by fetchDataIndex,
\* fetchDataOptions or fetchDataFutures is strictly ascending (no duplicate
\* timestamps), for fetchDataOptions after the rounding to whole seconds.
C7_IndexStrictlyAscending ==
    last.op \in {"fetchDataIndex", "fetchDataOptions", "fetchDataFutures"}
            /\ last.outcome = "returned" =>
        StrictlyAscending([i \in 1..Len(last.df) |-> last.df[i].timestamp])

\* C8: the dates returned by fetchTradingDays and by fetchExpiryDays are
\* sorted ascending without duplicates, whatever order the store yields the
\* distinct rows in and whatever distinct stored values fall on one date.
C8_DatesSortedDistinct ==
    last.op \in {"fetchTradingDays", "fetchExpiryDays"}
            /\ last.outcome = "returned" =>
        StrictlyAscending([i \in 1..Len(last.df) |-> last.df[i].dates])

\* the call's first submission succeeded
Uninterrupted(c) == c.log # <<>> /\ c.log[1].ok

\* the call's first submission failed and its resubmission succeeded
Recovered(c) ==
    /\ FirstFailed(c.log)
    /\ c.log[Len(c.log)].call = "execute"
    /\ c.log[Len(c.log)].ok

\* C9: of two successive calls of the same function with the same inputs on
\* the same store (for fetchTradingDays also the same order of the store's
\* rows), one uninterrupted and one whose first submission failed and whose
\* resubmission succeeded (by either repair branch), both end the same way:
\* the same table returned, or the same error raised.
C9_RepairTransparent ==
    [][/\ last.op \in RetrievalOps
       /\ last'.op = last.op
       /\ last'.args = last.args
       /\ \/ Uninterrupted(last) /\ Recovered(last')
          \/ Recovered(last) /\ Uninterrupted(last')
       => /\ last'.outcome = last.outcome
          /\ last'.error = last.error
          /\ last'.df = last.df]_vars

\* fetchDataOptions returned bars after a failed cursor.close and a
\* reconnect
C9_Witness ==
    /\ last.op = "fetchDataOptions"
    /\ Recovered(last)
    /\ Calls(last.log, "connect") # {}
    /\ last.outcome = "returned"
    /\ Len(last.df) >= 2

RECURSIVE SumPnl(_, _)
\* the sum of the pnl of the first k trades
SumPnl(trades, k) == IF k = 0 THEN 0 ELSE SumPnl(trades, k - 1) + trades[k].pnl

\* the rows of a trade log as a bag
RowBag(df) ==
    [tr \in {df[i] : i \in 1..Len(df)} |->
        Cardinality({i \in 1..Len(df) : df[i] = tr})]

\* C10: the equity curve is the running sum in exit-time order: the sorted
\* log holds the trades of the file ascending in exit time, the k-th equity
\* point is initial_capital + point_value * (pnl of the first k trades) at
\* the k-th trade's exit date, and the first return is
\* (equity[0] - initial_capital) / initial_capital; capital 100000, point
\* value 20 and pnl +10 then -5 give equity [100200, 100100] and a first
\* return of 200/100000.
C10_EquityRunningSum ==
    report.outcome = "done" =>
        LET df == report.trades_df
        IN  /\ RowBag(df) = RowBag(report.csv)
            /\ \A i \in 1..(Len(df) - 1) : df[i].exit_time <= df[i + 1].exit_time
            /\ Len(report.equity) = Len(df) /\ Len(report.dates) = Len(df)
            /\ \A k \in 1..Len(df) :
                   /\ report.equity[k] =
                          report.initial_capital + report.point_value * SumPnl(df, k)
                   /\ report.dates[k] = df[k].exit_time \div DAY
            /\ report.rets[1].num = report.equity[1] - report.initial_capital
            /\ report.rets[1].den = report.initial_capital
            /\ ( /\ report.initial_capital = 100000 /\ report.point_value = 20
                  /\ [i \in 1..Len(df) |-> df[i].pnl] = <<10, -5>> )
                => /\ report.equity = <<100200, 100100>>
                   /\ report.rets[1] = [num |-> 200, den |-> 100000]

\* the example of the claim, given in the file with the later exit first
C10_Witness ==
    /\ report.outcome = "done"
    /\ report.initial_capital = 100000
    /\ Len(report.csv) = 2
    /\ report.csv[1].pnl = -5 /\ report.csv[2].pnl = 10
    /\ report.csv[1].exit_time \div DAY = 2 /\ report.csv[2].exit_time \div DAY = 1
    /\ report.equity = <<100200, 100100>>
    /\ report.dates = <<1, 2>>

\* C11: after every retrieval call, returned or raised, whatever store
\* operations failed during it, conn is an open connection and cursor is an
\* open cursor of that connection.
C11_SessionLive ==
    last.op \in RetrievalOps =>
        /\ ~conn.closed
        /\ ~cursor.closed
        /\ cursor.connection = "conn"

====
